---- MODULE Spec2Model ----
(***************************************************************************)
(* A model of curry_howard.py: the natural-deduction rules for /\, \/ and  *)
(* -> as operations on evidence values, and the worked proofs built from   *)
(* them.  A behaviour is a proof script run by a caller: every step calls  *)
(* one operation of the library on premises or on the evidence returned by *)
(* earlier steps, and the call is appended to the log.                     *)
(***************************************************************************)
EXTENDS Integers, Sequences, FiniteSets, TLC

VARIABLES tabstop, log

vars == <<tabstop, log>>

(***************************************************************************)
(* Python values.  Every value is a record of one shape so that any two    *)
(* values can be compared: k is the Python type, v a string (the text of a *)
(* str, the name of a function's code, the name of an exception) and items *)
(* the components (of a tuple) or the captured variables (of a closure).   *)
(***************************************************************************)
Str(s) == [k |-> "str", v |-> s, items |-> <<>>]

Tuple(x, y) == [k |-> "tuple", v |-> "", items |-> <<x, y>>]

Fn(code, env) == [k |-> "function", v |-> code, items |-> env]

Exc(name) == [k |-> "exception", v |-> name, items |-> <<>>]

IsStr(x) == x.k = "str"

IsTuple(x) == x.k = "tuple"

IsFn(x) == x.k = "function"

IsExc(x) == x.k = "exception"

\* The characters of the strings the program handles ('p', 'q', 'r' and the
\* single characters are their own only character).
Chars(s) ==
    IF s = "left" THEN <<"l", "e", "f", "t">>
    ELSE IF s = "right" THEN <<"r", "i", "g", "h", "t">>
    ELSE <<s>>

\* x[i] of Python, i counted from 0: a component of a tuple, a character of a
\* str, IndexError past the end, TypeError on a function.
Index(x, i) ==
    IF IsTuple(x) THEN x.items[i + 1]
    ELSE IF IsStr(x)
         THEN IF i + 1 <= Len(Chars(x.v)) THEN Str(Chars(x.v)[i + 1])
              ELSE Exc("IndexError")
    ELSE Exc("TypeError")

(***************************************************************************)
(* The indentation of the body of or_e, lines 187-193 (line 192 holds only *)
(* white space and is skipped by the tokenizer): lines 187 and 193 are     *)
(* indented by two spaces, lines 188-191 by tabs.                          *)
(***************************************************************************)
or_e_indent ==
    << <<" ", " ">>,      \* 187   r = None
       <<"\t">>,          \* 188   if pORq[0] == "left":
       <<"\t", "\t">>,    \* 189       r = pDEDUCEr(pORq[1])
       <<"\t">>,          \* 190   else:
       <<"\t", "\t">>,    \* 191       r = qDEDUCEr(pORq[1])
       <<" ", " ">> >>    \* 193   return r

\* The column white space ws reaches when a tab moves to the next multiple of ts.
RECURSIVE Column(_, _)
Column(ws, ts) ==
    IF ws = <<>> THEN 0
    ELSE LET c == Column(SubSeq(ws, 1, Len(ws) - 1), ts)
         IN  IF ws[Len(ws)] = "\t" THEN ((c \div ts) + 1) * ts ELSE c + 1

\* or_e's body is the block "r = None; if ...: ... else: ...; return r" exactly
\* when its four statements start in one column and the two branches are
\* indented deeper.  With the tab stop of 2 the listing was laid out for they
\* do; with CPython's tab stop of 8 line 188 is at column 8 under a block opened
\* at column 2 and the def statement raises IndentationError (TabError in
\* Python 3), so or_e is never bound and every call of it raises.  Each def is
\* read on its own here: the bodies of the other functions are indented with
\* tabs only and are bound with either tab stop, although CPython, given the
\* file as a whole, stops at line 188 and binds none of them.
or_e_compiles(ts) ==
    LET col(i) == Column(or_e_indent[i], ts)
    IN  /\ col(1) = col(2) /\ col(2) = col(4) /\ col(4) = col(6)
        /\ col(3) > col(2)
        /\ col(5) > col(4)

TabStops == {2, 8}


(***************************************************************************)
(* The inference primitives.                                               *)
(***************************************************************************)
RECURSIVE Call(_, _)

and_i(p, q) == Tuple(p, q)

\* A slip in and_e1: the second component in place of the first.
and_e1_second(pq) == Index(pq, 1)

and_e1(pq) == Index(pq, 0)

and_e2(pq) == Index(pq, 1)

or_i1(p) == Tuple(Str("left"), p)

or_i2(q) == Tuple(Str("right"), q)

\* One call of or_e: r is what the call returns (or the exception it raises),
\* invoked the parameters it called, in order.  The tag is compared with
\* 'left' only; any other first component takes the else branch.
or_e_run(pORq, pDEDUCEr, qDEDUCEr) ==
    IF ~or_e_compiles(tabstop)
    THEN [r |-> Exc("IndentationError"), invoked |-> <<>>]
    ELSE IF IsExc(Index(pORq, 0))
    THEN [r |-> Index(pORq, 0), invoked |-> <<>>]
    ELSE IF Index(pORq, 0) = Str("left")
    THEN IF IsExc(Index(pORq, 1))
         THEN [r |-> Index(pORq, 1), invoked |-> <<>>]
         ELSE [r |-> Call(pDEDUCEr, Index(pORq, 1)), invoked |-> <<"pDEDUCEr">>]
    ELSE IF IsExc(Index(pORq, 1))
         THEN [r |-> Index(pORq, 1), invoked |-> <<>>]
         ELSE [r |-> Call(qDEDUCEr, Index(pORq, 1)), invoked |-> <<"qDEDUCEr">>]

or_e(pORq, pDEDUCEr, qDEDUCEr) == or_e_run(pORq, pDEDUCEr, qDEDUCEr).r

\* imply_i returns the closure pIMPLYq, which captures pDEDUCEq.
imply_i(pDEDUCEq) == Fn("imply_i.pIMPLYq", <<pDEDUCEq>>)

imply_e(pIMPLYq, p) == Call(pIMPLYq, p)

(***************************************************************************)
(* The worked proofs.  A raised exception ends the proof at once, so a     *)
(* step after a call is taken only when the call returned.                 *)
(***************************************************************************)
\* A slip in and_example: line 4 pairs p with q, not q with p.
and_example_unswapped(pANDq) ==
    LET p == and_e1(pANDq)
        q == and_e2(pANDq)
    IN  and_i(p, q)

and_example(pANDq) ==
    LET p == and_e1(pANDq)
        q == and_e2(pANDq)
        qANDp == and_i(q, p)
    IN  qANDp

\* A slip in or_example: the two introduction rules in the other order.
or_example_misordered(q) ==
    LET pORq == or_i1(q)
    IN  or_i2(pORq)

or_example(q) ==
    LET pORq == or_i2(q)
        pORqORr == or_i1(pORq)
    IN  pORqORr

\* A slip in example1: line 5 pairs q with p, not p with q.
example1_swapped(pqIMPLYr, pIMPLYq, p) ==
    LET q == imply_e(pIMPLYq, p)
    IN  IF IsExc(q) THEN q
        ELSE imply_e(pqIMPLYr, and_i(q, p))

example1(pqIMPLYr, pIMPLYq, p) ==
    LET q == imply_e(pIMPLYq, p)
    IN  IF IsExc(q) THEN q
        ELSE LET pANDq == and_i(p, q)
                 r == imply_e(pqIMPLYr, pANDq)
             IN  r

\* example3 returns imply_i of the closure qDEDUCEr, which captures p and qpIMPLYr.
example3(p, qpIMPLYr) ==
    LET qDEDUCEr == Fn("example3.qDEDUCEr", <<p, qpIMPLYr>>)
        qIMPLYr == imply_i(qDEDUCEr)
    IN  qIMPLYr

\* example4 returns imply_i of the closure pqDEDUCEr, which captures pIMPLYr and qIMPLYr.
example4(pIMPLYr, qIMPLYr) ==
    LET pqDEDUCEr == Fn("example4.pqDEDUCEr", <<pIMPLYr, qIMPLYr>>)
        pqIMPLYr == imply_i(pqDEDUCEr)
    IN  pqIMPLYr

(***************************************************************************)
(* The bodies of the nested functions, each with the variables it captures *)
(* ahead of its own parameter.                                             *)
(***************************************************************************)
\* A slip in pIMPLYq: it returns its argument, not what pDEDUCEq made of it.
imply_i_pIMPLYq_returns_p(pDEDUCEq, p) == p

imply_i_pIMPLYq(pDEDUCEq, p) ==
    LET q == Call(pDEDUCEq, p)
    IN  q

\* A slip in example3's qDEDUCEr: the captured p paired ahead of the assumption q.
example3_qDEDUCEr_swapped(p, qpIMPLYr, q) ==
    LET pANDq == and_i(p, q)
    IN  imply_e(qpIMPLYr, pANDq)

example3_qDEDUCEr(p, qpIMPLYr, q) ==
    LET qANDp == and_i(q, p)
        r == imply_e(qpIMPLYr, qANDp)
    IN  r

example4_pDEDUCEr(pIMPLYr, p) ==
    LET r == imply_e(pIMPLYr, p)
    IN  r

example4_qDEDUCEr(qIMPLYr, q) ==
    LET r == imply_e(qIMPLYr, q)
    IN  r

example4_pqDEDUCEr(pIMPLYr, qIMPLYr, pORq) ==
    LET pDEDUCEr == Fn("example4.pDEDUCEr", <<pIMPLYr>>)
        qDEDUCEr == Fn("example4.qDEDUCEr", <<qIMPLYr>>)
        r == or_e(pORq, pDEDUCEr, qDEDUCEr)
    IN  r

\* The deduction method of the tests: it returns the atom r of setUp whatever
\* it is given.
test_pqDEDUCEr(pANDq) == Str("r")

(***************************************************************************)
(* f(x) for a function value f: the body of the function whose code f      *)
(* names, run with the variables f captured (f.items) and the argument x.  *)
(***************************************************************************)
Call(f, x) ==
    CASE f.v = "imply_i.pIMPLYq" -> imply_i_pIMPLYq(f.items[1], x)
      [] f.v = "example3.qDEDUCEr" -> example3_qDEDUCEr(f.items[1], f.items[2], x)
      [] f.v = "example4.pqDEDUCEr" -> example4_pqDEDUCEr(f.items[1], f.items[2], x)
      [] f.v = "example4.pDEDUCEr" -> example4_pDEDUCEr(f.items[1], x)
      [] f.v = "example4.qDEDUCEr" -> example4_qDEDUCEr(f.items[1], x)
      [] f.v = "test_example1.pqDEDUCEr" -> test_pqDEDUCEr(x)
      [] f.v = "or_i1" -> or_i1(x)

(***************************************************************************)
(* What a caller starts from: the atoms of the tests' setUp, and as        *)
(* deduction methods the tests' constant method and or_i1 itself, whose    *)
(* result depends on its argument.                                         *)
(***************************************************************************)
Atoms == {Str("p"), Str("q")}

\* The evidence handed to a proof as its premises: atoms, and disjunctions the
\* caller built with the introduction rules.
Premises == Atoms \cup {or_i1(Str("p")), or_i2(Str("q"))}

Deductions ==
    { Fn("test_example1.pqDEDUCEr", <<>>),
      Fn("or_i1", <<>>) }

MaxCalls == 2

\* The evidence a step may use: a premise, or what an earlier step returned.
Returned == {log[i].ret : i \in 1..Len(log)}

Evidence == {x \in Premises \cup Returned : ~IsFn(x) /\ ~IsExc(x)}

Methods == {x \in Deductions \cup Returned : IsFn(x)}

Entry(op, args, ret, invoked) ==
    [op |-> op, args |-> args, ret |-> ret, invoked |-> invoked]

Record(op, args, ret) ==
    /\ log' = Append(log, Entry(op, args, ret, <<>>))
    /\ UNCHANGED tabstop

Init ==
    /\ tabstop \in TabStops
    /\ log = <<>>

Call_and_i ==
    /\ Len(log) < MaxCalls
    /\ \E p \in Evidence, q \in Evidence : Record("and_i", <<p, q>>, and_i(p, q))

Call_and_e1 ==
    /\ Len(log) < MaxCalls
    /\ \E pq \in Evidence : IsTuple(pq) /\ Record("and_e1", <<pq>>, and_e1(pq))

Call_and_e2 ==
    /\ Len(log) < MaxCalls
    /\ \E pq \in Evidence : IsTuple(pq) /\ Record("and_e2", <<pq>>, and_e2(pq))

Call_or_i1 ==
    /\ Len(log) < MaxCalls
    /\ \E p \in Evidence : Record("or_i1", <<p>>, or_i1(p))

Call_or_i2 ==
    /\ Len(log) < MaxCalls
    /\ \E q \in Evidence : Record("or_i2", <<q>>, or_i2(q))

Call_or_e ==
    /\ Len(log) < MaxCalls
    /\ \E pORq \in Evidence, pDEDUCEr \in Methods, qDEDUCEr \in Methods :
        /\ IsTuple(pORq)
        /\ log' = Append(log, Entry("or_e", <<pORq, pDEDUCEr, qDEDUCEr>>,
                                    or_e_run(pORq, pDEDUCEr, qDEDUCEr).r,
                                    or_e_run(pORq, pDEDUCEr, qDEDUCEr).invoked))
        /\ UNCHANGED tabstop

Call_imply_i ==
    /\ Len(log) < MaxCalls
    /\ \E pDEDUCEq \in Methods : Record("imply_i", <<pDEDUCEq>>, imply_i(pDEDUCEq))

Call_imply_e ==
    /\ Len(log) < MaxCalls
    /\ \E pIMPLYq \in Methods, p \in Evidence :
        Record("imply_e", <<pIMPLYq, p>>, imply_e(pIMPLYq, p))

Call_and_example ==
    /\ Len(log) < MaxCalls
    /\ \E pANDq \in Evidence : IsTuple(pANDq) /\ Record("and_example", <<pANDq>>, and_example(pANDq))

Call_or_example ==
    /\ Len(log) < MaxCalls
    /\ \E q \in Evidence : Record("or_example", <<q>>, or_example(q))

Call_example1 ==
    /\ Len(log) < MaxCalls
    /\ \E pqIMPLYr \in Methods, pIMPLYq \in Methods, p \in Evidence :
        Record("example1", <<pqIMPLYr, pIMPLYq, p>>, example1(pqIMPLYr, pIMPLYq, p))

Call_example3 ==
    /\ Len(log) < MaxCalls
    /\ \E p \in Evidence, qpIMPLYr \in Methods :
        Record("example3", <<p, qpIMPLYr>>, example3(p, qpIMPLYr))

Call_example4 ==
    /\ Len(log) < MaxCalls
    /\ \E pIMPLYr \in Methods, qIMPLYr \in Methods :
        Record("example4", <<pIMPLYr, qIMPLYr>>, example4(pIMPLYr, qIMPLYr))

Next ==
    \/ Call_and_i
    \/ Call_and_e1
    \/ Call_and_e2
    \/ Call_or_i1
    \/ Call_or_i2
    \/ Call_or_e
    \/ Call_imply_i
    \/ Call_imply_e
    \/ Call_and_example
    \/ Call_or_example
    \/ Call_example1
    \/ Call_example3
    \/ Call_example4

Spec == Init /\ [][Next]_vars


(***************************************************************************)
(* Properties.  Calls(op) are the steps of the log that called op; a step  *)
(* j uses step i in argument k when its k-th argument is what i returned.  *)
(***************************************************************************)
Calls(op) == {i \in 1..Len(log) : log[i].op = op}

IsLeft(x) == IsTuple(x) /\ x.items[1] = Str("left")

IsRight(x) == IsTuple(x) /\ x.items[1] = Str("right")

\* C1: eliminating a conjunction built by and_i gives back its components:
\* and_e1(and_i(a, b)) = a and and_e2(and_i(a, b)) = b.
C1_AndRoundTrip ==
    \A i \in Calls("and_i") :
        /\ \A j \in Calls("and_e1") :
              log[j].args[1] = log[i].ret => log[j].ret = log[i].args[1]
        /\ \A j \in Calls("and_e2") :
              log[j].args[1] = log[i].ret => log[j].ret = log[i].args[2]

C1_Witness ==
    \E i \in Calls("and_i") :
        /\ log[i].args[1] # log[i].args[2]
        /\ \E j \in Calls("and_e1") \cup Calls("and_e2") :
              j > i /\ log[j].args[1] = log[i].ret

\* C2: or_e on a disjunction tagged by or_i1 returns the first method applied
\* to the payload, on one tagged by or_i2 the second method applied to it.
C2_TagIntegrity ==
    \A j \in Calls("or_e") :
        /\ IsLeft(log[j].args[1]) =>
              log[j].ret = Call(log[j].args[2], log[j].args[1].items[2])
        /\ IsRight(log[j].args[1]) =>
              log[j].ret = Call(log[j].args[3], log[j].args[1].items[2])

\* C3: applying with imply_e the evidence imply_i made of f gives f(x).
C3_ImplyIdentity ==
    \A i \in Calls("imply_i") :
        \A j \in Calls("imply_e") :
            log[j].args[1] = log[i].ret =>
                log[j].ret = Call(log[i].args[1], log[j].args[2])

C3_Witness ==
    \E i \in Calls("imply_i") :
        \E j \in Calls("imply_e") :
            /\ j > i
            /\ log[j].args[1] = log[i].ret
            /\ log[j].ret # log[j].args[2]

C5_AndExampleSwaps ==
    \A i \in Calls("and_i") :
        \A j \in Calls("and_example") :
            log[j].args[1] = log[i].ret =>
                log[j].ret = Tuple(log[i].args[2], log[i].args[1])

C5_Witness ==
    \E i \in Calls("and_i") :
        \E j \in Calls("and_example") :
            /\ j > i
            /\ log[i].args = <<Str("p"), Str("q")>>
            /\ log[j].args[1] = log[i].ret
            /\ log[j].ret = Tuple(Str("q"), Str("p"))

\* C6: or_example(q) returns ('left', ('right', q)).
C6_OrExampleShape ==
    \A j \in Calls("or_example") :
        log[j].ret = Tuple(Str("left"), Tuple(Str("right"), log[j].args[1]))

C6_Witness ==
    \E j \in Calls("or_example") :
        /\ log[j].args[1] = Str("q")
        /\ IsLeft(log[j].ret)
        /\ IsRight(log[j].ret.items[2])

\* C7: example1(pqIMPLYr, pIMPLYq, p) returns pqIMPLYr applied to the pair
\* (p, pIMPLYq(p)), for transformations (methods that return at their
\* argument); it is 'r' when pqIMPLYr maps everything to 'r'.
C7_Example1Chain ==
    \A j \in Calls("example1") :
        LET pqIMPLYr == log[j].args[1]
            pIMPLYq == log[j].args[2]
            p == log[j].args[3]
        IN  ~IsExc(Call(pIMPLYq, p)) =>
                /\ log[j].ret = Call(pqIMPLYr, Tuple(p, Call(pIMPLYq, p)))
                /\ pqIMPLYr = Fn("test_example1.pqDEDUCEr", <<>>) => log[j].ret = Str("r")

C7_Witness ==
    \E j \in Calls("example1") :
        /\ log[j].args[1] = Fn("or_i1", <<>>)
        /\ log[j].args[2] = Fn("or_i1", <<>>)
        /\ log[j].args[3] = Str("p")
        /\ log[j].ret = Tuple(Str("left"), Tuple(Str("p"), Tuple(Str("left"), Str("p"))))

\* C8: the transformation example3(p, qpIMPLYr) returns, applied to x, gives
\* qpIMPLYr applied to the pair (x, p) with the p example3 was called with; it
\* is 'r' when qpIMPLYr maps everything to 'r'.
C8_Example3Closure ==
    \A i \in Calls("example3") :
        \A j \in Calls("imply_e") :
            log[j].args[1] = log[i].ret =>
                LET p == log[i].args[1]
                    qpIMPLYr == log[i].args[2]
                    x == log[j].args[2]
                IN  /\ log[j].ret = Call(qpIMPLYr, Tuple(x, p))
                    /\ qpIMPLYr = Fn("test_example1.pqDEDUCEr", <<>>) => log[j].ret = Str("r")

C8_Witness ==
    \E i \in Calls("example3") :
        \E j \in Calls("imply_e") :
            /\ j > i
            /\ log[j].args[1] = log[i].ret
            /\ log[i].args[2] = Fn("or_i1", <<>>)
            /\ log[i].args[1] # log[j].args[2]
            /\ log[j].ret = Tuple(Str("left"), Tuple(log[j].args[2], log[i].args[1]))

\* C9: the transformation example4(pIMPLYr, qIMPLYr) returns gives pIMPLYr(a)
\* on or_i1(a) and qIMPLYr(b) on or_i2(b).
C9_Example4CaseSplit ==
    \A i \in Calls("example4") :
        \A j \in Calls("imply_e") :
            log[j].args[1] = log[i].ret =>
                /\ IsLeft(log[j].args[2]) =>
                      log[j].ret = Call(log[i].args[1], log[j].args[2].items[2])
                /\ IsRight(log[j].args[2]) =>
                      log[j].ret = Call(log[i].args[2], log[j].args[2].items[2])

\* C10: a call of or_e on a disjunction built by or_i1 or or_i2 calls exactly
\* one of its two methods, once: the first on 'left', the second on 'right'.
C10_ExactlyOneInvoked ==
    \A j \in Calls("or_e") :
        /\ IsLeft(log[j].args[1]) => log[j].invoked = <<"pDEDUCEr">>
        /\ IsRight(log[j].args[1]) => log[j].invoked = <<"qDEDUCEr">>

====
